---------------------------- MODULE Spec2Model ----------------------------
(***************************************************************************)
(* Labels-Service: the job lifecycle engine (app/services/job_manager.py)  *)
(* and the parts of the print pipeline (app/services/label_print.py) that  *)
(* decide a job's outcome.                                                 *)
(*                                                                         *)
(* The program runs on one asyncio event loop, so between two suspension   *)
(* points a task runs alone.  A worker suspends in two places: in          *)
(* queue.get() when the queue is empty, and inside generate_pdf while the  *)
(* renderer runs.  The model splits a worker's turn into steps (take an    *)
(* item and mark it running; the synchronous part of generate_pdf; mark    *)
(* the result and sweep; go round the loop) and lets no other action run   *)
(* while a worker is inside its turn (Busy).                               *)
(*                                                                         *)
(* Time is a bounded integer clock (ticks); datetime.now() reads it.  The  *)
(* clock advances only between turns.                                      *)
(*                                                                         *)
(* The disk is the set of paths that exist: the CSV of a generate_pdf      *)
(* call, the PDF the renderer writes.  Spec is the program under its       *)
(* default settings on a disk whose unlink calls succeed; SpecFiles adds   *)
(* KEEP_CSV and failing unlink calls; SpecQuery adds the callers of        *)
(* get_job and list_jobs; SpecEngine is the renderer adapter's semaphore   *)
(* under more callers than permits; SpecExport is one _json_to_csv call    *)
(* on every input up to a bound.                                           *)
(***************************************************************************)
EXTENDS Integers, Sequences, FiniteSets, TLC

(***************************************************************************)
(* Bounds of the model                                                     *)
(***************************************************************************)
\* number of submit_job calls explored
MaxJobs == 2
\* last tick of the clock
MaxTime == 2
\* largest pool size explored (settings.MAX_PARALLEL ranges over 1..MaxPool)
MaxPool == 2
\* the retention window (settings.RETENTION_HOURS), scaled to clock ticks
RetentionTicks == 1
\* clock ticks per second: strftime("%Y%m%d_%H%M%S") keeps whole seconds only
TicksPerSecond == 2
\* largest limit passed to list_jobs
MaxLimit == 3
\* number of coroutines that call the renderer adapter at the same time
MaxCallers == 3
\* largest number of records passed to _json_to_csv
MaxRecords == 2

(***************************************************************************)
(* Values                                                                  *)
(***************************************************************************)
\* Python's None
None == "None"
\* the value a path-valued key reads as when the job dict does not have it
Absent == <<>>
\* no job: the value of a worker's job_id while it awaits queue.get()
NoJob == 0

\* The extension of a template file name, one token of a name.
EXT == ".glabels"

\* Characters re.sub(r"[^A-Za-z0-9._-]", "_", s) leaves alone; the
\* extension token is made of such characters only.
SafeChars == {"a", "b", "c", ".", "_", "-", EXT}

\* Files of the templates/ directory.
TemplateDir == { <<"a", EXT>>, <<"b", " ", EXT>> }

\* One label record: an ordered mapping (a Python dict) as a sequence of
\* <<key, value>> pairs.
RowA == << <<"A", "1">> >>

\* The label records passed to the exporter: every ordered mapping from
\* distinct keys of ExportKeys to values of ExportValues (text of one
\* character each, with nothing the csv module would quote).
ExportKeys == {"X", "Y"}
ExportValues == {"1", "2"}
ExportRecords ==
    { r \in UNION { [1..n -> ExportKeys \X ExportValues] : n \in 0..Cardinality(ExportKeys) } :
          \A i, j \in 1..Len(r) : i # j => r[i][1] # r[j][1] }

\* The data lists passed to the exporter, the empty list included.
ExportInputs == UNION { [1..n -> ExportRecords] : n \in 0..MaxRecords }

\* The field_order arguments: <<>> stands for None and for the empty list,
\* which "field_order or ..." treats alike.
FieldOrders == { <<>>, <<"Y">>, <<"Y", "X">>, <<"Z", "X">> }

\* Validated submission requests (LabelRequest): template_name ends in
\* ".glabels", copies >= 1.
Requests ==
    { [template_name |-> <<"a", EXT>>,      data |-> <<RowA>>, copies |-> 1],
      [template_name |-> <<"b", " ", EXT>>, data |-> <<>>,     copies |-> 2],
      [template_name |-> <<"c", EXT>>,      data |-> <<RowA>>, copies |-> 1] }

VARIABLES
    jobs,          \* self.jobs: job_id -> job dict
    queue,         \* self.queue: FIFO of job ids (the (job_id, req, filename) items)
    workers,       \* self.workers: the worker tasks, each at a suspension point
    jobs_total,    \* self.jobs_total
    max_parallel,  \* self.max_parallel
    stopping,      \* a stop_workers() call is awaiting asyncio.gather
    uuids,         \* number of uuid4() values generated so far
    now,           \* the clock read by datetime.now()
    dequeued,      \* history: job ids in the order queue.get() returned them
    started,       \* history: job ids in the order they were marked running
    invoked,       \* history: job_id -> number of generate_pdf calls for it
    resolved,      \* history: job ids whose worker reached the done/failed marking
    keep_csv,      \* LabelPrintService.keep_csv (settings.KEEP_CSV)
    files,         \* the paths that exist on disk (temp/, the tempfile directory, output/)
    callers,       \* the coroutines inside GlabelsEngine.run_batch (renderer adapter)
    csv            \* a _json_to_csv call: its arguments, the file written, the value returned

vars == <<jobs, queue, workers, jobs_total, max_parallel, stopping, uuids, now,
          dequeued, started, invoked, resolved, keep_csv, files, callers, csv>>

JobIds == 1..MaxJobs
Ended == {"crashed", "cancelled"}

(***************************************************************************)
(* label_print.py: output file name                                        *)
(***************************************************************************)
\* _slug: every character outside [A-Za-z0-9._-] becomes "_".
_slug(s) == [i \in 1..Len(s) |-> IF s[i] \in SafeChars THEN s[i] ELSE "_"]

\* Path(template_name).stem: the final path component without its last
\* suffix; a component that is only ".glabels" is a hidden file with no
\* suffix and is kept whole.
RECURSIVE LastSlash(_, _)
LastSlash(s, i) == IF i = 0 THEN 0 ELSE IF s[i] = "/" THEN i ELSE LastSlash(s, i - 1)

PathName(s) == SubSeq(s, LastSlash(s, Len(s)) + 1, Len(s))

PathStem(s) ==
    LET name == PathName(s)
    IN  IF Len(name) > 1 /\ name[Len(name)] = EXT
        THEN SubSeq(name, 1, Len(name) - 1)
        ELSE name

\* datetime.now().strftime("%Y%m%d_%H%M%S"): the clock cut to whole seconds.
FormatTs(t) == ToString(t \div TicksPerSecond)

\* LabelPrintService.make_output_filename
make_output_filename(template_name, t) ==
    _slug(PathStem(template_name)) \o <<"_", FormatTs(t), ".pdf">>

(***************************************************************************)
(* label_print.py: the CSV export                                          *)
(***************************************************************************)
\* The elements of a list.
Elements(seq) == { seq[i] : i \in 1..Len(seq) }

\* row.keys(), in insertion order.
RowKeys(row) == [i \in 1..Len(row) |-> row[i][1]]

\* row.get(k, default)
RowGet(row, k, default) ==
    IF \E i \in 1..Len(row) : row[i][1] = k
    THEN row[CHOOSE i \in 1..Len(row) : row[i][1] = k][2]
    ELSE default

\* _collect_fieldnames, the inner loop: the keys of one row, each appended
\* to 'order' unless excluded or seen before.
RECURSIVE CollectRow(_, _, _)
CollectRow(keys, order, exclude) ==
    IF keys = <<>> THEN order
    ELSE LET k == Head(keys)
         IN  IF k \in exclude \/ k \in Elements(order)
             THEN CollectRow(Tail(keys), order, exclude)
             ELSE CollectRow(Tail(keys), Append(order, k), exclude)

\* _collect_fieldnames, the outer loop over the rows.
RECURSIVE CollectRows(_, _, _)
CollectRows(rows, order, exclude) ==
    IF rows = <<>> THEN order
    ELSE CollectRows(Tail(rows), CollectRow(RowKeys(Head(rows)), order, exclude), exclude)

\* A faulty variant of _collect_fieldnames: only the first row is read.
_collect_fieldnames_FirstRow(rows, exclude) ==
    IF rows = <<>> THEN <<>> ELSE CollectRow(RowKeys(Head(rows)), <<>>, exclude)

\* _collect_fieldnames
_collect_fieldnames(rows, exclude) == CollectRows(rows, <<>>, exclude)

\* str(value) as the csv writer takes it: the characters of the field.
Chars(value) == IF value = "" THEN <<>> ELSE <<value>>

\* The fields of a line joined with the delimiter.
RECURSIVE JoinCells(_)
JoinCells(cells) ==
    IF cells = <<>> THEN <<>>
    ELSE IF Len(cells) = 1 THEN Chars(Head(cells))
    ELSE Chars(Head(cells)) \o <<",">> \o JoinCells(Tail(cells))

\* csv.writer.writerow: one line of the file (without its terminator).  A
\* row of one empty field is written as a pair of quotes.
CsvLine(cells) ==
    IF Len(cells) > 0 /\ JoinCells(cells) = <<>> THEN <<"\"", "\"">>
    ELSE JoinCells(cells)

\* The dict given to writer.writerow for one row, {k: row.get(k, "")}, as
\* DictWriter lays it out: one cell per field name.
RowCells(row, fieldnames) ==
    [c \in 1..Len(fieldnames) |-> RowGet(row, fieldnames[c], "")]

\* LabelPrintService._json_to_csv: raises on an empty list before the file
\* is opened; otherwise writes the header and one line per row and returns
\* the field names.
_json_to_csv(data, field_order) ==
    IF data = <<>>
    THEN [pc |-> "raised", fieldnames |-> <<>>, cells |-> <<>>, lines |-> <<>>]
    ELSE LET fieldnames == IF field_order # <<>> THEN field_order
                           ELSE _collect_fieldnames(data, {})
         IN  [pc         |-> "returned",
              fieldnames |-> fieldnames,
              cells      |-> [i \in 1..Len(data) |-> RowCells(data[i], fieldnames)],
              lines      |-> <<CsvLine(fieldnames)>> \o
                             [i \in 1..Len(data) |-> CsvLine(RowCells(data[i], fieldnames))]]

\* No _json_to_csv call is under way.
NoExport == [pc |-> "idle", data |-> <<>>, field_order |-> <<>>,
             fieldnames |-> <<>>, cells |-> <<>>, lines |-> <<>>]

(***************************************************************************)
(* job_manager.py: job records                                             *)
(***************************************************************************)
\* A faulty variant of _make_job: the template is stored without its extension.
_make_job_Stem(req, job_id, filename, t) ==
    [ status      |-> "pending",
      filename    |-> filename,
      template    |-> PathStem(req.template_name),
      error       |-> None,
      created_at  |-> t,
      updated_at  |-> t,
      request     |-> req,
      output_file |-> Absent ]

\* JobManager._make_job; the dict has no "output_file" key.
_make_job(req, job_id, filename, t) ==
    [ status      |-> "pending",
      filename    |-> filename,
      template    |-> req.template_name,
      error       |-> None,
      created_at  |-> t,
      updated_at  |-> t,
      request     |-> req,
      output_file |-> Absent ]

\* A faulty variant of get_job: self.jobs[job_id], an error for an id the
\* table does not have.
get_job_KeyError(table, job_id) ==
    IF job_id \in DOMAIN table THEN table[job_id] ELSE "KeyError"

\* JobManager.get_job: self.jobs.get(job_id) on the job table
get_job(table, job_id) == IF job_id \in DOMAIN table THEN table[job_id] ELSE None

\* The ids a caller may look up: every id the manager can hand out and one
\* it never hands out.
LookupIds == 1..(MaxJobs + 1)

\* The limits a caller passes to list_jobs.
Limits == 0..MaxLimit

\* A faulty variant of SortedItems: the sort is ascending (reverse=True is
\* missing).
RECURSIVE SortedItems_Ascending(_, _)
SortedItems_Ascending(table, ids) ==
    IF ids = {} THEN <<>>
    ELSE LET first == CHOOSE j \in ids : \A k \in ids :
                          \/ table[j].created_at < table[k].created_at
                          \/ table[j].created_at = table[k].created_at /\ j <= k
         IN  <<first>> \o SortedItems_Ascending(table, ids \ {first})

\* JobManager.list_jobs, lines 201-202: list(self.jobs.items()) sorted by
\* created_at with reverse=True.  The sort is stable, also when reversed, so
\* jobs created at the same instant stay in the order of the dict, which is
\* the order of insertion, that is of the ids.
RECURSIVE SortedItems(_, _)
SortedItems(table, ids) ==
    IF ids = {} THEN <<>>
    ELSE LET first == CHOOSE j \in ids : \A k \in ids :
                          \/ table[j].created_at > table[k].created_at
                          \/ table[j].created_at = table[k].created_at /\ j <= k
         IN  <<first>> \o SortedItems(table, ids \ {first})

\* JobManager.list_jobs: the first 'limit' items of the sorted list, each as
\* a new dict dict(job_id=jid, **data).
list_jobs(table, limit) ==
    LET items == SortedItems(table, DOMAIN table)
        n     == IF limit < Len(items) THEN limit ELSE Len(items)
    IN  [i \in 1..n |-> [job_id |-> items[i]] @@ table[items[i]]]

(***************************************************************************)
(* job_manager.py: the admission queue, asyncio.Queue()                    *)
(***************************************************************************)
\* A faulty variant of QueueFull: a queue made with maxsize=1.
QueueFull_Bounded(q) == Len(q) >= 1

\* JobManager.__init__, line 26: asyncio.Queue() has maxsize 0, so the queue
\* is never full and 'await self.queue.put(...)' never suspends.
QueueFull(q) == FALSE

\* A faulty variant of QueuePut: a LIFO queue, the item joins the front.
QueuePut_Front(q, item) == <<item>> \o q

\* self.queue.put(item): the item joins the back of the queue.
QueuePut(q, item) == Append(q, item)

\* self.queue.get(): the item at the front is returned ...
QueueFront(q) == Head(q)

\* A faulty variant of QueueRest: the item is read but stays queued.
QueueRest_Keep(q) == q

\* ... and leaves the queue.
QueueRest(q) == Tail(q)


\* A faulty variant of MarkRunning: the status write is forgotten.
MarkRunning_NoStatus(job, t) == [job EXCEPT !.updated_at = t]

\* JobManager._worker, lines 84-85: the job is marked running.
MarkRunning(job, t) == [job EXCEPT !.status = "running", !.updated_at = t]

\* JobManager._worker, line 99: the pipeline call returned.  Its return value
\* (the output path) is dropped: no field of the job dict receives it.
MarkDone(job) == [job EXCEPT !.status = "done"]

\* A faulty variant of MarkFailed: the error text is not stored.
MarkFailed_NoError(job, message) == [job EXCEPT !.status = "failed"]

\* A faulty variant of MarkFailed: the failed job loses its filename.
MarkFailed_ClearsFilename(job, message) ==
    [job EXCEPT !.status = "failed", !.error = message, !.filename = <<>>]

\* JobManager._worker, lines 103-105: the pipeline call raised Exception e.
MarkFailed(job, message) == [job EXCEPT !.status = "failed", !.error = message]

\* JobManager._worker, line 108: the finally clause.
Touch(job, t) == [job EXCEPT !.updated_at = t]

\* A faulty variant of IsExpired: a job created exactly at the cutoff counts as old.
IsExpired_Inclusive(job, t) == job.created_at <= t - RetentionTicks

\* JobManager._cleanup_jobs, lines 123-124: a job is old when it was created
\* before the cutoff, whatever its status.
IsExpired(job, t) == job.created_at < t - RetentionTicks

\* A faulty variant of _cleanup_jobs: the sweep is not run.
_cleanup_jobs_Skip(table, t) == table

\* JobManager._cleanup_jobs: every old job is popped from the table.  The
\* file deletion is guarded by '"output_file" in job', a key no job has.
_cleanup_jobs(table, t) ==
    LET old_jobs == {jid \in DOMAIN table : IsExpired(table[jid], t)}
    IN  [jid \in DOMAIN table \ old_jobs |-> table[jid]]

(***************************************************************************)
(* label_print.py: how one generate_pdf call can end                       *)
(***************************************************************************)
\* f.name.lower() == template_name.lower(): the names of the model are
\* lower case already.
TemplateExists(template_name) == template_name \in TemplateDir

\* How GlabelsEngine.run_batch can end: exit 0, a non-zero exit
\* (GlabelsRunError), or the time budget running out.
RenderOutcomes == {"ok", "rc", "timeout"}

\* LabelPrintService.generate_pdf, lines 141-166: _resolve_template, then
\* _json_to_csv; the first failure ends the call, "ok" reaches the renderer.
SetupOutcome(req) ==
    IF req.template_name[Len(req.template_name)] # EXT THEN "invalid"
    ELSE IF ~TemplateExists(req.template_name) THEN "notfound"
    ELSE IF req.data = <<>> THEN "empty"
    ELSE "ok"

\* str(e) of the exception each failure raises.  A timeout's exception may
\* carry no text at all (an empty, but non-null, string).
ErrorMessage(outcome) ==
    CASE outcome = "invalid"  -> "Only .glabels templates are allowed"
      [] outcome = "notfound" -> "gLabels template not found"
      [] outcome = "empty"    -> "No label data to generate CSV"
      [] outcome = "rc"       -> "Label PDF generation failed (rc=1)"
      [] outcome = "timeout"  -> ""

\* LabelPrintService.generate_pdf, lines 144-148 and 208: the path returned
\* on success.
OutputPath(filename) == <<"output", "/">> \o filename

\* A faulty variant of MarkResult: the exception's type name is stored, not its text.
MarkResult_TypeName(job, outcome) ==
    IF outcome = "ok" THEN MarkDone(job) ELSE MarkFailed(job, "RuntimeError")

\* JobManager._worker, lines 91-106: the try block's write to the job dict.
MarkResult(job, outcome) ==
    IF outcome = "ok" THEN MarkDone(job) ELSE MarkFailed(job, ErrorMessage(outcome))

(***************************************************************************)
(* The files of one generate_pdf call and of the retention sweep           *)
(***************************************************************************)
\* settings.AUTO_CLEANUP_PDF, the default of config.py.
AUTO_CLEANUP_PDF == TRUE

\* settings.KEEP_CSV, the default of config.py.
KEEP_CSV == FALSE

\* LabelPrintService.generate_pdf, lines 150-164: csv_path.  With keep_csv it
\* is temp/{job_id}.csv; otherwise mkstemp makes a fresh file whose name
\* starts with labels_{job_id}_ in the tempfile directory.
CsvPath(job_id, keep) ==
    IF keep THEN <<"temp", "/", ToString(job_id), ".csv">>
    ELSE <<"tmp", "/", "labels_", ToString(job_id), "_", ".csv">>

\* Path.unlink(): the file is removed, unless the call raises OSError.
Unlink(fs, path, failing) == IF path \in failing THEN fs ELSE fs \ {path}

\* LabelPrintService.generate_pdf, lines 141-166: the files on disk once the
\* synchronous part has run.  _resolve_template raises before any file is
\* made.  With keep_csv, _json_to_csv raises on empty data before it opens
\* the file; without it, mkstemp has created the file before _json_to_csv
\* is called.
CsvSetup(fs, job_id, req, keep) ==
    LET outcome == SetupOutcome(req)
    IN  IF outcome \in {"invalid", "notfound"} THEN fs
        ELSE IF keep /\ outcome = "empty" THEN fs
        ELSE fs \cup {CsvPath(job_id, keep)}

\* What the renderer leaves in output/: on exit 0 the PDF is at the output
\* path it was given.
RenderWrites(fs, filename, outcome) ==
    IF outcome = "ok" THEN fs \cup {OutputPath(filename)} ELSE fs

\* A faulty variant of CsvCleanup: the file is deleted on the success path
\* only, not in a finally clause.
CsvCleanup_OnSuccess(fs, job_id, keep, outcome, failing) ==
    IF ~keep /\ outcome = "ok" /\ CsvPath(job_id, keep) \in fs
    THEN Unlink(fs, CsvPath(job_id, keep), failing)
    ELSE fs

\* LabelPrintService.generate_pdf, lines 197-206: the finally clause of the
\* renderer call, run however the call ended (outcome is "ok", "rc",
\* "timeout" or "cancelled"); OSError of unlink is caught and logged.
CsvCleanup(fs, job_id, keep, outcome, failing) ==
    IF ~keep /\ CsvPath(job_id, keep) \in fs
    THEN Unlink(fs, CsvPath(job_id, keep), failing)
    ELSE fs

\* A faulty variant of AfterFinally: the OSError of unlink is not caught,
\* leaves the finally clause and replaces the call's own result.
AfterFinally_Raises(outcome, unlink_failed) ==
    IF unlink_failed THEN "rc" ELSE outcome

\* LabelPrintService.generate_pdf, lines 197-208: how the call ends once the
\* finally clause has run.  The clause catches the OSError of unlink, so the
\* call ends as the renderer call did.
AfterFinally(outcome, unlink_failed) == outcome

\* The output files recorded in the job dicts of a table.
OutputFiles(table) ==
    {table[jid].output_file : jid \in {k \in DOMAIN table : table[k].output_file # Absent}}

\* JobManager._cleanup_jobs, lines 126-139: the PDF of an old job is unlinked
\* when AUTO_CLEANUP_PDF is set, the dict has an "output_file" key and the
\* file exists; OSError of unlink is caught and logged.
CleanupFiles(table, fs, t, failing) ==
    LET old_jobs == {jid \in DOMAIN table : IsExpired(table[jid], t)}
        old_pdfs == IF AUTO_CLEANUP_PDF
                    THEN OutputFiles([jid \in old_jobs |-> table[jid]])
                    ELSE {}
    IN  fs \ (old_pdfs \ failing)

(***************************************************************************)
(* job_manager.py: the operations                                          *)
(***************************************************************************)
Init ==
    /\ jobs = [jid \in {} |-> None]
    /\ queue = <<>>
    /\ workers = <<>>
    /\ jobs_total = 0
    /\ max_parallel \in 1..MaxPool
    /\ stopping = FALSE
    /\ uuids = 0
    /\ now = 0
    /\ dequeued = <<>>
    /\ started = <<>>
    /\ invoked = [jid \in JobIds |-> 0]
    /\ resolved = {}
    /\ keep_csv = KEEP_CSV
    /\ files = {}
    /\ callers = <<>>
    /\ csv = NoExport

\* The worker's local 'req' while it holds no item.
NoRequest == [template_name |-> <<>>, data |-> <<>>, copies |-> 0]

\* A worker task and where it stands:
\*   "get"   suspended in 'await self.queue.get()' (or created and not yet run)
\*   "call"  running: the job is marked running, generate_pdf is being called
\*   "pdf"   suspended inside generate_pdf, in 'await self.engine.run_batch()'
\*   "loop"  running: a job was just handled, queue.get() is being called again
\*   "crashed", "cancelled"  the task has ended
\* job_id, req and filename are the locals unpacked from the queue item.
Worker(pc, job_id, req, filename, cancel) ==
    [pc |-> pc, job_id |-> job_id, req |-> req, filename |-> filename,
     cancel |-> cancel]

IdleWorker == Worker("get", NoJob, NoRequest, <<>>, FALSE)

\* The event loop runs one task at a time: while a worker is between two
\* suspension points no other coroutine runs.
Busy == \E w \in 1..Len(workers) : workers[w].pc \in {"call", "loop"}

\* A faulty variant of CountSubmission: the increment is forgotten.
CountSubmission_Skip(total) == total

\* JobManager.submit_job, line 183: self.jobs_total += 1.
CountSubmission(total) == total + 1

\* JobManager.submit_job.  The call suspends only in 'await queue.put', and
\* only when the queue is full; otherwise the whole call is one step.
submit_job(req) ==
    /\ ~Busy
    /\ uuids < MaxJobs
    /\ ~QueueFull(queue)
    /\ LET job_id   == uuids + 1
           filename == make_output_filename(req.template_name, now)
       IN  /\ jobs' = [jid \in DOMAIN jobs \cup {job_id} |->
                          IF jid = job_id THEN _make_job(req, job_id, filename, now)
                          ELSE jobs[jid]]
           /\ queue' = QueuePut(queue, job_id)
    /\ jobs_total' = CountSubmission(jobs_total)
    /\ uuids' = uuids + 1
    /\ UNCHANGED <<workers, max_parallel, stopping, now, dequeued, started,
                   invoked, resolved, keep_csv, files, callers, csv>>

\* JobManager._worker, lines 82-98: queue.get() returns the front item; the
\* table lookup raises KeyError when the record is gone, which no handler of
\* the loop catches, so the task ends; otherwise the job is marked running and
\* generate_pdf is called.
TakeItem(w) ==
    /\ LET job_id == QueueFront(queue)
       IN  /\ queue' = QueueRest(queue)
           /\ dequeued' = Append(dequeued, job_id)
           /\ IF job_id \notin DOMAIN jobs
              THEN /\ workers' = [workers EXCEPT ![w] =
                          Worker("crashed", NoJob, NoRequest, <<>>, FALSE)]
                   /\ UNCHANGED <<jobs, started, invoked>>
              ELSE /\ jobs' = [jobs EXCEPT ![job_id] = MarkRunning(@, now)]
                   /\ workers' = [workers EXCEPT ![w] =
                          Worker("call", job_id, jobs[job_id].request,
                                 jobs[job_id].filename, FALSE)]
                   /\ started' = Append(started, job_id)
                   /\ invoked' = [invoked EXCEPT ![job_id] = @ + 1]
    /\ UNCHANGED <<jobs_total, max_parallel, stopping, uuids, now, resolved,
                   keep_csv, files, callers, csv>>

\* JobManager._worker, line 82: a worker suspended in queue.get() is resumed
\* when the queue holds an item.
WorkerDequeue(w) ==
    /\ ~Busy
    /\ workers[w].pc = "get"
    /\ ~workers[w].cancel
    /\ queue # <<>>
    /\ TakeItem(w)

\* JobManager._worker, lines 99-110: generate_pdf returned or raised an
\* Exception; the job is marked, touched, and the retention sweep runs; the
\* worker goes round the loop.  The worker's 'job' is the dict object itself:
\* once the table has dropped the record, the writes no longer reach the table.
\* fs is the disk as generate_pdf left it; failing holds the paths whose
\* unlink raises OSError in this step.
Complete(w, outcome, fs, failing) ==
    /\ LET job_id == workers[w].job_id
           marked == IF job_id \in DOMAIN jobs
                     THEN [jobs EXCEPT ![job_id] = Touch(MarkResult(@, outcome), now)]
                     ELSE jobs
       IN  /\ jobs' = _cleanup_jobs(marked, now)
           /\ files' = CleanupFiles(marked, fs, now, failing)
           /\ resolved' = resolved \cup {job_id}
    /\ workers' = [workers EXCEPT ![w] = Worker("loop", NoJob, NoRequest, <<>>, FALSE)]
    /\ UNCHANGED <<queue, jobs_total, max_parallel, stopping, uuids, now,
                   dequeued, started, invoked, keep_csv, callers, csv>>

\* LabelPrintService.generate_pdf, lines 141-180: the synchronous part of the
\* call.  A failure of the template lookup or of the export raises at once,
\* in the worker's own turn; otherwise the worker suspends in run_batch.
WorkerCall(w) ==
    /\ workers[w].pc = "call"
    /\ LET outcome == SetupOutcome(workers[w].req)
           fs      == CsvSetup(files, workers[w].job_id, workers[w].req, keep_csv)
       IN  IF outcome = "ok"
           THEN /\ workers' = [workers EXCEPT ![w].pc = "pdf"]
                /\ files' = fs
                /\ UNCHANGED <<jobs, queue, jobs_total, max_parallel, stopping,
                               uuids, now, dequeued, started, invoked, resolved,
                               keep_csv, callers, csv>>
           ELSE \E failing \in SUBSET OutputFiles(jobs) :
                    Complete(w, outcome, fs, failing)

\* LabelPrintService.generate_pdf, lines 174-208, and JobManager._worker,
\* lines 99-110: the renderer call ends and generate_pdf returns or raises.
WorkerFinish(w, outcome, failing) ==
    /\ ~Busy
    /\ workers[w].pc = "pdf"
    /\ ~workers[w].cancel
    /\ outcome \in RenderOutcomes
    /\ Complete(w,
                AfterFinally(outcome, ~keep_csv /\ CsvPath(workers[w].job_id, keep_csv) \in failing),
                CsvCleanup(RenderWrites(files, workers[w].filename, outcome),
                           workers[w].job_id, keep_csv, outcome, failing),
                failing)

\* JobManager._worker, lines 81-82: back at the top of the loop, queue.get()
\* returns at once when the queue holds an item, and suspends otherwise.
WorkerLoop(w) ==
    /\ workers[w].pc = "loop"
    /\ IF queue = <<>>
       THEN /\ workers' = [workers EXCEPT ![w] = IdleWorker]
            /\ UNCHANGED <<jobs, queue, jobs_total, max_parallel, stopping, uuids,
                           now, dequeued, started, invoked, resolved, keep_csv,
                           files, callers, csv>>
       ELSE TakeItem(w)

\* JobManager._worker, lines 107-113: CancelledError reaches the task.  It is
\* no Exception, so a worker inside generate_pdf skips the marking, runs the
\* finally clause (touch, sweep) and ends; an idle worker just ends.
WorkerCancelled(w, failing) ==
    /\ ~Busy
    /\ workers[w].pc \in {"get", "pdf"}
    /\ workers[w].cancel
    /\ IF workers[w].pc = "pdf"
       THEN LET job_id == workers[w].job_id
                touched == IF job_id \in DOMAIN jobs
                           THEN [jobs EXCEPT ![job_id] = Touch(@, now)]
                           ELSE jobs
                fs      == CsvCleanup(files, job_id, keep_csv, "cancelled", failing)
            IN  /\ jobs' = _cleanup_jobs(touched, now)
                /\ files' = CleanupFiles(touched, fs, now, failing)
       ELSE /\ failing = {}
            /\ UNCHANGED <<jobs, files>>
    /\ workers' = [workers EXCEPT ![w] = Worker("cancelled", NoJob, NoRequest, <<>>, FALSE)]
    /\ UNCHANGED <<queue, jobs_total, max_parallel, stopping, uuids, now,
                   dequeued, started, invoked, resolved, keep_csv, callers, csv>>

\* JobManager.start_workers: max_parallel tasks are created.  The caller (the
\* application's lifespan) starts the pool only when it is not running.
start_workers ==
    /\ ~Busy
    /\ Len(workers) = 0
    /\ ~stopping
    /\ workers' = [wid \in 1..max_parallel |-> IdleWorker]
    /\ UNCHANGED <<jobs, queue, jobs_total, max_parallel, stopping, uuids, now,
                   dequeued, started, invoked, resolved, keep_csv, files, callers, csv>>

\* JobManager.stop_workers, lines 161-163: task.cancel() on every worker, then
\* the call awaits asyncio.gather.
stop_workers ==
    /\ ~Busy
    /\ Len(workers) > 0
    /\ ~stopping
    /\ workers' = [wid \in 1..Len(workers) |->
           IF workers[wid].pc \in {"get", "pdf"}
           THEN [workers[wid] EXCEPT !.cancel = TRUE]
           ELSE workers[wid]]
    /\ stopping' = TRUE
    /\ UNCHANGED <<jobs, queue, jobs_total, max_parallel, uuids, now,
                   dequeued, started, invoked, resolved, keep_csv, files, callers, csv>>

\* JobManager.stop_workers, lines 163-164: every task has ended, gather
\* returns and the list is cleared.
StopWorkersDone ==
    /\ stopping
    /\ \A wid \in 1..Len(workers) : workers[wid].pc \in Ended
    /\ workers' = <<>>
    /\ stopping' = FALSE
    /\ UNCHANGED <<jobs, queue, jobs_total, max_parallel, uuids, now,
                   dequeued, started, invoked, resolved, keep_csv, files, callers, csv>>

\* JobManager.get_job: a read of the table; nothing is written.
GetJobCall(job_id) ==
    /\ ~Busy
    /\ job_id \in LookupIds
    /\ UNCHANGED vars

\* JobManager.list_jobs: the items are copied into a new list, which is
\* sorted and sliced; nothing of the manager is written.
ListJobsCall(limit) ==
    /\ ~Busy
    /\ limit \in Limits
    /\ UNCHANGED vars

\* The wall clock advances (between two turns of the event loop).
Tick ==
    /\ ~Busy
    /\ now < MaxTime
    /\ now' = now + 1
    /\ UNCHANGED <<jobs, queue, workers, jobs_total, max_parallel, stopping,
                   uuids, dequeued, started, invoked, resolved, keep_csv, files, callers, csv>>

\* The paths a worker leaving generate_pdf may try to unlink: its own CSV
\* and the output files recorded in the table.
UnlinkTargets(w) ==
    {CsvPath(workers[w].job_id, keep_csv)} \cup OutputFiles(jobs)

\* One step of worker w.
WorkerStep(w) ==
    \/ WorkerDequeue(w)
    \/ WorkerCall(w)
    \/ \E outcome \in RenderOutcomes : WorkerFinish(w, outcome, {})
    \/ WorkerLoop(w)

Next ==
    \/ \E req \in Requests : submit_job(req)
    \/ \E w \in 1..Len(workers) : WorkerDequeue(w)
    \/ \E w \in 1..Len(workers) : WorkerCall(w)
    \/ \E w \in 1..Len(workers) : \E outcome \in RenderOutcomes : WorkerFinish(w, outcome, {})
    \/ \E w \in 1..Len(workers) : WorkerLoop(w)
    \/ \E w \in 1..Len(workers) : WorkerCancelled(w, {})
    \/ start_workers
    \/ stop_workers
    \/ StopWorkersDone
    \/ Tick

\* The program under its default configuration, on a disk where every
\* unlink succeeds.
Spec == Init /\ [][Next]_vars

\* The program with either setting of KEEP_CSV and a pool of one worker, on
\* a disk where any unlink may raise OSError.
InitFiles ==
    /\ jobs = [jid \in {} |-> None]
    /\ queue = <<>>
    /\ workers = <<>>
    /\ jobs_total = 0
    /\ max_parallel = 1
    /\ stopping = FALSE
    /\ uuids = 0
    /\ now = 0
    /\ dequeued = <<>>
    /\ started = <<>>
    /\ invoked = [jid \in JobIds |-> 0]
    /\ resolved = {}
    /\ keep_csv \in BOOLEAN
    /\ files = {}
    /\ callers = <<>>
    /\ csv = NoExport

NextFiles ==
    \/ \E req \in Requests : submit_job(req)
    \/ \E w \in 1..Len(workers) : WorkerDequeue(w)
    \/ \E w \in 1..Len(workers) : WorkerCall(w)
    \/ \E w \in 1..Len(workers) : \E outcome \in RenderOutcomes : \E failing \in SUBSET UnlinkTargets(w) : WorkerFinish(w, outcome, failing)
    \/ \E w \in 1..Len(workers) : WorkerLoop(w)
    \/ \E w \in 1..Len(workers) : \E failing \in SUBSET UnlinkTargets(w) : WorkerCancelled(w, failing)
    \/ start_workers
    \/ stop_workers
    \/ StopWorkersDone
    \/ Tick

SpecFiles == InitFiles /\ [][NextFiles]_vars

\* The same steps, with the callers of the read operations get_job and
\* list_jobs, for a pool of one worker.
InitQuery == Init /\ max_parallel = 1

NextQuery ==
    \/ Next
    \/ \E job_id \in LookupIds : GetJobCall(job_id)
    \/ \E limit \in Limits : ListJobsCall(limit)

SpecQuery == InitQuery /\ [][NextQuery]_vars

\* The steps of a run in which stop_workers is never called.
NextRunning ==
    \/ \E req \in Requests : submit_job(req)
    \/ \E w \in 1..Len(workers) : WorkerDequeue(w)
    \/ \E w \in 1..Len(workers) : WorkerCall(w)
    \/ \E w \in 1..Len(workers) : \E outcome \in RenderOutcomes : WorkerFinish(w, outcome, {})
    \/ \E w \in 1..Len(workers) : WorkerLoop(w)
    \/ start_workers
    \/ Tick

SpecRunning == Init /\ [][NextRunning]_vars

\* The same run under the scheduling the event loop gives: the pool is
\* started, a worker that can take a step is resumed, and every pipeline call
\* returns or raises.
FairSpec ==
    /\ SpecRunning
    /\ WF_vars(start_workers)
    /\ \A w \in 1..MaxPool : WF_vars(w \in 1..Len(workers) /\ WorkerStep(w))

(***************************************************************************)
(* The renderer adapter, GlabelsEngine (app/utils/glabels_engine.py): one   *)
(* semaphore shared by every run_batch call of the process; a call holds a *)
(* permit for as long as its renderer process runs.  Here the adapter is    *)
(* driven by MaxCallers coroutines calling it freely, however many workers  *)
(* the pool has.                                                            *)
(***************************************************************************)
CallerIds == 1..MaxCallers

\* A faulty variant of EngineCap: max_parallel is not handed on and the
\* adapter sizes its semaphore by itself.
EngineCap_Auto(mp) == MaxPool + 1

\* JobManager.__init__, lines 40-44, and LabelPrintService.__init__, lines
\* 57-64: the manager's max_parallel is the max_parallel of the engine.
EngineCap(mp) == mp

\* The renderer processes that are running.
Running == {c \in DOMAIN callers : callers[c].pc = "running"}

\* A caller of the adapter: where it stands ("idle" outside run_batch,
\* "waiting" for a permit, "running" with its renderer process alive) and
\* how its last call ended.
Caller(pc, last) == [pc |-> pc, last |-> last]

InitEngine ==
    /\ jobs = [jid \in {} |-> None]
    /\ queue = <<>>
    /\ workers = <<>>
    /\ jobs_total = 0
    /\ max_parallel \in 1..MaxPool
    /\ stopping = FALSE
    /\ uuids = 0
    /\ now = 0
    /\ dequeued = <<>>
    /\ started = <<>>
    /\ invoked = [jid \in JobIds |-> 0]
    /\ resolved = {}
    /\ keep_csv = KEEP_CSV
    /\ files = {}
    /\ callers = [c \in CallerIds |-> Caller("idle", None)]
    /\ csv = NoExport

\* The variables of the job manager other than the disk.
manager_state == <<jobs, queue, workers, jobs_total, max_parallel, stopping,
                   uuids, now, dequeued, started, invoked, resolved, keep_csv,
                   callers>>

\* Every variable of the job manager.
manager_vars == <<jobs, queue, workers, jobs_total, max_parallel, stopping,
                  uuids, now, dequeued, started, invoked, resolved, keep_csv,
                  files, csv>>

\* GlabelsEngine.run_batch is called: with a free permit the call takes it
\* and starts the renderer process at once, otherwise it waits.
run_batch(c) ==
    /\ callers[c].pc = "idle"
    /\ callers' = [callers EXCEPT ![c].pc =
           IF Cardinality(Running) < EngineCap(max_parallel)
           THEN "running" ELSE "waiting"]
    /\ UNCHANGED manager_vars

\* A waiting call gets a permit another call released and starts its
\* renderer process.
AcquirePermit(c) ==
    /\ callers[c].pc = "waiting"
    /\ Cardinality(Running) < EngineCap(max_parallel)
    /\ callers' = [callers EXCEPT ![c].pc = "running"]
    /\ UNCHANGED manager_vars

\* The renderer process exits with 0, exits with another code, or is
\* killed when the time budget runs out; the permit is released.
ProcessEnds(c, outcome) ==
    /\ callers[c].pc = "running"
    /\ outcome \in RenderOutcomes
    /\ callers' = [callers EXCEPT ![c] = Caller("idle", outcome)]
    /\ UNCHANGED manager_vars

\* The calling task is cancelled: a waiting call gives up, a running
\* renderer process is terminated and its permit released.
CancelCall(c) ==
    /\ callers[c].pc \in {"waiting", "running"}
    /\ callers' = [callers EXCEPT ![c] = Caller("idle", "cancelled")]
    /\ UNCHANGED manager_vars

NextEngine ==
    \/ \E c \in CallerIds : run_batch(c)
    \/ \E c \in CallerIds : AcquirePermit(c)
    \/ \E c \in CallerIds : \E outcome \in RenderOutcomes : ProcessEnds(c, outcome)
    \/ \E c \in CallerIds : CancelCall(c)

SpecEngine == InitEngine /\ [][NextEngine]_vars

(***************************************************************************)
(* One _json_to_csv call                                                   *)
(***************************************************************************)
\* The path the exporter is given.
ExportPath == CsvPath(1, TRUE)

\* A call of _json_to_csv(data, csv_path, field_order) is about to run, on
\* any data list and field order of the bounded sets.
InitExport ==
    /\ jobs = [jid \in {} |-> None]
    /\ queue = <<>>
    /\ workers = <<>>
    /\ jobs_total = 0
    /\ max_parallel = 1
    /\ stopping = FALSE
    /\ uuids = 0
    /\ now = 0
    /\ dequeued = <<>>
    /\ started = <<>>
    /\ invoked = [jid \in JobIds |-> 0]
    /\ resolved = {}
    /\ keep_csv = KEEP_CSV
    /\ files = {}
    /\ callers = <<>>
    /\ csv \in { [NoExport EXCEPT !.pc = "call", !.data = data, !.field_order = field_order] :
                    data \in ExportInputs, field_order \in FieldOrders }

\* LabelPrintService._json_to_csv runs to its end: the file is written and
\* the field names are returned, or ValueError is raised.
JsonToCsvCall ==
    /\ csv.pc = "call"
    /\ LET result == _json_to_csv(csv.data, csv.field_order)
       IN  /\ csv' = [csv EXCEPT !.pc = result.pc, !.fieldnames = result.fieldnames,
                                 !.cells = result.cells, !.lines = result.lines]
           /\ files' = IF result.pc = "returned" THEN files \cup {ExportPath} ELSE files
    /\ UNCHANGED manager_state

NextExport == JsonToCsvCall

SpecExport == InitExport /\ [][NextExport]_vars

(***************************************************************************)
(* Properties                                                              *)
(***************************************************************************)
Terminal == {"done", "failed"}

\* C1: every status change of a job is pending->running (in the step that
\* takes it from the front of the queue), running->done or running->failed
\* (in the step that ends its worker's pipeline call); a record enters the
\* table as pending under a fresh id; a done or failed record never changes
\* status; a record leaves the table only when it is older than the
\* retention window.
C1_StatusTransitions ==
    [][\A j \in JobIds :
          /\ (j \in DOMAIN jobs /\ j \in DOMAIN jobs' /\ jobs'[j].status # jobs[j].status) =>
                \/ /\ jobs[j].status = "pending" /\ jobs'[j].status = "running"
                   /\ queue # <<>> /\ Head(queue) = j /\ queue' = Tail(queue)
                \/ /\ jobs[j].status = "running" /\ jobs'[j].status \in Terminal
                   /\ \E w \in 1..Len(workers) :
                         /\ workers[w].pc \in {"call", "pdf"} /\ workers[w].job_id = j
                         /\ workers'[w].pc = "loop"
          /\ (j \notin DOMAIN jobs /\ j \in DOMAIN jobs') =>
                (jobs'[j].status = "pending" /\ j > uuids)
          /\ (j \in DOMAIN jobs /\ j \notin DOMAIN jobs') =>
                jobs[j].created_at < now - RetentionTicks
      ]_vars

\* C1 witness: a job has gone pending->running->done and another
\* pending->running->failed.
C1_Witness ==
    \E j, k \in DOMAIN jobs : jobs[j].status = "done" /\ jobs[k].status = "failed"

\* C2: in every reachable state every job of the table has a non-null error
\* exactly when its status is failed.
C2_ErrorIffFailed ==
    \A j \in DOMAIN jobs : (jobs[j].error # None) <=> (jobs[j].status = "failed")

\* C2 witness: a job failed for a missing template and carries the message,
\* next to a running job with no error.
C2_Witness ==
    \E j, k \in DOMAIN jobs :
        /\ jobs[j].status = "failed" /\ jobs[j].error = "gLabels template not found"
        /\ jobs[k].status = "running" /\ jobs[k].error = None

\* C3 (the claim as stated): with the pool started and never stopped, under
\* fair scheduling every submitted job is eventually marked done or failed
\* by its worker.
C3_EverySubmittedJobResolves ==
    \A j \in JobIds : (j <= uuids) ~> (j \in resolved)

\* C4 (the claim as stated): while the pool is started and not stopped, all
\* max_parallel workers are alive, and every item taken from the queue is
\* either being processed by a worker or has been marked done or failed.
C4_WorkersSurviveAndResolve ==
    (Len(workers) > 0 /\ ~stopping) =>
        /\ Len(workers) = max_parallel
        /\ \A w \in 1..Len(workers) : workers[w].pc \notin Ended
        /\ \A i \in 1..Len(dequeued) :
              \/ dequeued[i] \in resolved
              \/ \E w \in 1..Len(workers) : workers[w].job_id = dequeued[i]

\* The order of submission of two jobs: ids are handed out in the order of
\* the submit_job calls.
SubmittedBefore(a, b) == a < b

\* C5: jobs leave the queue in the order they were submitted, for any pool
\* size: whenever a job has been dequeued, every job submitted before it was
\* dequeued earlier; and jobs are marked running in that same order.
C5_QueueIsFifo ==
    /\ \A i \in 1..Len(dequeued) :
          \A a \in 1..uuids :
              SubmittedBefore(a, dequeued[i]) => \E k \in 1..(i - 1) : dequeued[k] = a
    /\ \A i, k \in 1..Len(started) :
          i < k => SubmittedBefore(started[i], started[k])

\* C5 witness: a pool of one worker has taken two jobs, A then B.
C5_Witness ==
    max_parallel = 1 /\ Len(dequeued) = 2 /\ Len(started) = 2

\* C6: every submitted job is put on the queue once and taken from it at most
\* once, so generate_pdf is called at most once for it, and no two workers
\* hold the same job.
C6_SingleConsumer ==
    /\ \A j \in 1..uuids :
          Cardinality({i \in 1..Len(queue) : queue[i] = j})
              + Cardinality({i \in 1..Len(dequeued) : dequeued[i] = j}) = 1
    /\ \A j \in JobIds : invoked[j] <= 1
    /\ \A v, w \in 1..Len(workers) :
          (v # w /\ workers[v].job_id # NoJob) =>
              workers[v].job_id # workers[w].job_id

\* C6 witness: two workers are inside generate_pdf at once, each for its own job.
C6_Witness ==
    \E v, w \in 1..Len(workers) :
        v # w /\ workers[v].pc = "pdf" /\ workers[w].pc = "pdf"

\* C7: in the state a submit_job(request) call produces, looking up the
\* returned id gives a record with status pending, error null, a non-empty
\* filename and the request's template identifier.
C7_SubmitCreatesPending ==
    [][\A req \in Requests :
          submit_job(req) =>
              LET job_id == uuids + 1
                  rec    == get_job(jobs', job_id)
              IN  /\ job_id \in DOMAIN jobs'
                  /\ rec.status = "pending"
                  /\ rec.error = None
                  /\ Len(rec.filename) > 0
                  /\ rec.template = req.template_name
      ]_vars

\* C7 witness: two requests have been submitted and no worker exists yet;
\* both records are pending.
C7_Witness ==
    /\ Len(workers) = 0 /\ dequeued = <<>> /\ Len(queue) = 2
    /\ \A j \in DOMAIN jobs : jobs[j].status = "pending"

\* The step in which worker w's generate_pdf call ends with the given
\* outcome: a failure of the synchronous part, or the renderer call ending.
EndsCall(w, outcome) ==
    \/ /\ workers[w].pc = "call"
       /\ outcome # "ok"
       /\ outcome = SetupOutcome(workers[w].req)
       /\ WorkerCall(w)
    \/ \E failing \in SUBSET UnlinkTargets(w) : WorkerFinish(w, outcome, failing)

\* C8: in the step that ends a job's pipeline call, a normal return leaves
\* the job's record done with error null, and a raised error leaves it
\* failed with the error's message in the error field.
C8_OutcomeRecorded ==
    [][\A w \in 1..Len(workers) :
          \A outcome \in {"ok", "invalid", "notfound", "empty", "rc", "timeout"} :
              EndsCall(w, outcome) =>
                  LET job_id == workers[w].job_id
                  IN  job_id \in DOMAIN jobs' =>
                        IF outcome = "ok"
                        THEN /\ jobs'[job_id].status = "done"
                             /\ jobs'[job_id].error = None
                        ELSE /\ jobs'[job_id].status = "failed"
                             /\ jobs'[job_id].error = ErrorMessage(outcome)
      ]_vars

\* C8 witness: one job failed with the exporter's message for an empty
\* record list, another completed as done.
C8_Witness ==
    \E j, k \in DOMAIN jobs :
        /\ jobs[j].status = "failed"
        /\ jobs[j].error = "No label data to generate CSV"
        /\ jobs[k].status = "done" /\ jobs[k].error = None

\* C9 (the claim as stated): every job whose status is done holds the
\* output path generate_pdf returned for it.
C9_DoneJobHoldsOutputPath ==
    \A j \in DOMAIN jobs :
        jobs[j].status = "done" => jobs[j].output_file = OutputPath(jobs[j].filename)

\* The steps that run the retention sweep: a worker leaves generate_pdf.
SweepStep(w) ==
    /\ workers[w].pc \in {"call", "pdf"}
    /\ workers'[w].pc \in {"loop", "cancelled"}

\* C10: a run of the retention sweep removes exactly the jobs created before
\* now - retention: none of them is left, every other job stays, and the
\* sweep changes no field of a job that stays (the worker's own job keeps
\* every field the marking before the sweep does not write).
C10_SweepRemovesExactlyExpired ==
    [][\A w \in 1..Len(workers) :
          SweepStep(w) =>
              /\ DOMAIN jobs' =
                    {j \in DOMAIN jobs : ~(jobs[j].created_at < now - RetentionTicks)}
              /\ \A j \in DOMAIN jobs' :
                    IF j = workers[w].job_id
                    THEN /\ jobs'[j].created_at = jobs[j].created_at
                         /\ jobs'[j].filename = jobs[j].filename
                         /\ jobs'[j].template = jobs[j].template
                         /\ jobs'[j].request = jobs[j].request
                    ELSE jobs'[j] = jobs[j]
      ]_vars

\* C10 witness: a sweep has removed an old job and left a younger one.
C10_Witness ==
    /\ \E j \in 1..uuids : j \notin DOMAIN jobs
    /\ \E k \in DOMAIN jobs : jobs[k].created_at >= now - RetentionTicks

\* C11 (the claim as stated): with AUTO_CLEANUP_PDF set, when a sweep removes
\* a done job whose output file exists (a file no other job of the table
\* and no worker names), that file is no longer on disk after the sweep,
\* unless its unlink raised OSError.
C11_SweepDeletesOutputFile ==
    [][\A w \in 1..Len(workers) :
          (AUTO_CLEANUP_PDF /\ SweepStep(w)) =>
              \A j \in DOMAIN jobs \ DOMAIN jobs' :
                  LET path == OutputPath(jobs[j].filename)
                  IN  ( /\ jobs[j].status = "done"
                        /\ path \in files
                        /\ \A k \in DOMAIN jobs \ {j} : jobs[k].filename # jobs[j].filename
                        /\ \A v \in 1..Len(workers) : workers[v].filename # jobs[j].filename )
                      => path \notin files'
      ]_vars

\* C12 (the claim as stated): a sweep removes only jobs that are done or
\* failed when it runs (the job its worker has just marked included); a
\* pending or running job stays in the table whatever its age, so every
\* queued id and every id a worker holds has a record.
C12_SweepRemovesOnlyTerminal ==
    [][\A w \in 1..Len(workers) :
          SweepStep(w) =>
              /\ \A j \in DOMAIN jobs \ DOMAIN jobs' :
                    \/ jobs[j].status \in Terminal
                    \/ j = workers[w].job_id /\ workers'[w].pc = "loop"
              /\ \A i \in 1..Len(queue') : queue'[i] \in DOMAIN jobs'
              /\ \A v \in 1..Len(workers') :
                    workers'[v].job_id # NoJob => workers'[v].job_id \in DOMAIN jobs'
      ]_vars

\* C13 (the claim as stated): once stop_workers has returned (the worker
\* list is cleared and no stop is in progress), no job of the table is
\* running: a job in flight at the cancellation was marked failed, or had
\* reached done or failed before.
C13_NoRunningJobAfterStop ==
    (Len(workers) = 0 /\ ~stopping) =>
        \A j \in DOMAIN jobs : jobs[j].status # "running"

\* C15: submit_job never waits for a worker or for the renderer: in every
\* state in which the event loop can give a caller its turn (no worker is
\* in the middle of its own turn), whether no worker exists, every worker is
\* inside the renderer call, or the queue holds items, a submit_job call for
\* any request can run to its end as the next step (as long as the model
\* has a job id left to hand out).
C15_SubmitNeverWaits ==
    (~Busy /\ uuids < MaxJobs) => \A req \in Requests : ENABLED submit_job(req)

\* C15 witness: the only worker is inside the renderer call, and the queue
\* holds a job that was submitted after that worker had taken its job.
C15_Witness ==
    /\ Len(workers) = 1 /\ workers[1].pc = "pdf"
    /\ workers[1].job_id \in DOMAIN jobs
    /\ \E i \in 1..Len(queue) :
          /\ queue[i] \in DOMAIN jobs
          /\ jobs[queue[i]].created_at > jobs[workers[1].job_id].updated_at

\* C16: jobs_total equals the number of submit_job calls made so far (one
\* uuid is drawn per call) and is at least the size of the job table; a
\* submit_job step raises it by exactly one and every other step (worker
\* steps with their sweep, get_job, list_jobs, start_workers, stop_workers,
\* the clock) leaves it as it is, so it never decreases.
C16_JobsTotalCountsSubmits ==
    /\ [](jobs_total = uuids /\ jobs_total >= Cardinality(DOMAIN jobs))
    /\ [][ /\ (\E req \in Requests : submit_job(req)) => jobs_total' = jobs_total + 1
           /\ jobs_total' # jobs_total => \E req \in Requests : submit_job(req)
         ]_vars

\* C16 witness: two submissions were counted and a sweep has since removed
\* a record: the counter is above the size of the table.
C16_Witness ==
    jobs_total = 2 /\ Cardinality(DOMAIN jobs) < 2 /\ \E w \in 1..Len(workers) : workers[w].pc = "loop"

\* C17: for every limit, list_jobs(limit) returns min(limit, size of the
\* table) entries; each is a job of the table with its job_id added, no job
\* twice; they are in descending order of created_at, and no job left out
\* was created later than a job returned; a list_jobs call leaves the job
\* table (and every other part of the state) as it was.
C17_ListReturnsMostRecent ==
    /\ [](\A limit \in Limits :
            LET r   == list_jobs(jobs, limit)
                n   == Cardinality(DOMAIN jobs)
                ids == {r[i].job_id : i \in 1..Len(r)}
            IN  /\ Len(r) = IF limit < n THEN limit ELSE n
                /\ Cardinality(ids) = Len(r)
                /\ \A i \in 1..Len(r) :
                      /\ r[i].job_id \in DOMAIN jobs
                      /\ r[i] = [job_id |-> r[i].job_id] @@ jobs[r[i].job_id]
                /\ \A i, k \in 1..Len(r) : i < k => r[i].created_at >= r[k].created_at
                /\ \A j \in DOMAIN jobs \ ids :
                      \A i \in 1..Len(r) : r[i].created_at >= jobs[j].created_at)
    /\ [][\A limit \in Limits : ListJobsCall(limit) => UNCHANGED vars]_vars

\* C17 witness: the table holds two jobs created at different times, the
\* older one under the first id; list_jobs(1) returns the younger one only.
C17_Witness ==
    /\ DOMAIN jobs = {1, 2}
    /\ jobs[1].created_at < jobs[2].created_at
    /\ Len(list_jobs(jobs, 1)) = 1
    /\ list_jobs(jobs, 1)[1].job_id = 2
    /\ Len(list_jobs(jobs, MaxLimit)) = 2

\* C18: get_job returns the record stored under the id when the table has
\* it, and None (no error) when the id was never handed out or its record
\* was swept; two calls between which the table did not change return the
\* same value; a get_job call leaves the table, the queue, the counter and
\* every other part of the state as they were.
C18_GetIsPureLookup ==
    /\ [](\A job_id \in LookupIds :
            IF job_id \in DOMAIN jobs
            THEN get_job(jobs, job_id) = jobs[job_id]
            ELSE get_job(jobs, job_id) = None)
    /\ [][ /\ \A job_id \in LookupIds : GetJobCall(job_id) => UNCHANGED vars
           /\ jobs' = jobs =>
                 \A job_id \in LookupIds : get_job(jobs', job_id) = get_job(jobs, job_id)
         ]_vars

\* C18 witness: one id's record was removed by a sweep, another id's record
\* is in the table, and a third id was never handed out.
C18_Witness ==
    /\ \E j \in 1..uuids : j \notin DOMAIN jobs /\ get_job(jobs, j) = None
    /\ \E k \in DOMAIN jobs : get_job(jobs, k).status \in Terminal
    /\ \E u \in LookupIds : u > uuids /\ get_job(jobs, u) = None

\* The step in which worker w leaves the generate_pdf call it was suspended
\* in (the renderer had been invoked), however the call ended.
LeavesRenderer(w, failing) ==
    \/ \E outcome \in RenderOutcomes : WorkerFinish(w, outcome, failing)
    \/ workers[w].pc = "pdf" /\ WorkerCancelled(w, failing)

\* C19 (the claim as stated): when a generate_pdf call that reached the
\* renderer ends (success, failure or cancellation), without keep_csv the
\* job's temporary CSV is not on disk any more, and with keep_csv the file
\* temp/{job_id}.csv is on disk.
C19_CsvGoneAfterRun ==
    [][\A w \in 1..Len(workers) :
          \A failing \in SUBSET UnlinkTargets(w) :
              LeavesRenderer(w, failing) =>
                  IF keep_csv
                  THEN CsvPath(workers[w].job_id, TRUE) \in files'
                  ELSE CsvPath(workers[w].job_id, FALSE) \notin files'
      ]_vars

\* C19, amended: when a generate_pdf call that reached the renderer ends
\* (success, failure or cancellation), without keep_csv the job's temporary
\* CSV is not on disk any more unless its unlink raised OSError, in which
\* case it is still there; with keep_csv the file temp/{job_id}.csv is on
\* disk.
C19_CsvGoneUnlessUnlinkFails ==
    [][\A w \in 1..Len(workers) :
          \A failing \in SUBSET UnlinkTargets(w) :
              LeavesRenderer(w, failing) =>
                  IF keep_csv
                  THEN CsvPath(workers[w].job_id, TRUE) \in files'
                  ELSE (CsvPath(workers[w].job_id, FALSE) \in files')
                          <=> (CsvPath(workers[w].job_id, FALSE) \in failing)
      ]_vars

\* C19 witness: without keep_csv a job's renderer run has failed with a
\* non-zero exit and the job's temporary CSV is gone, while another job's
\* CSV is on disk during its renderer run.
C19_Witness ==
    /\ ~keep_csv
    /\ \E j \in DOMAIN jobs :
          /\ jobs[j].status = "failed"
          /\ jobs[j].error = ErrorMessage("rc")
          /\ CsvPath(j, FALSE) \notin files
    /\ \E w \in 1..Len(workers) :
          workers[w].pc = "pdf" /\ CsvPath(workers[w].job_id, FALSE) \in files

\* C20: whichever unlink calls raise OSError in a step that ends a renderer
\* call (the temporary CSV's in the finally clause of generate_pdf, an old
\* job's output file's in the sweep), the step marks the worker's job by how
\* the renderer call ended and by nothing else, leaves status and error of
\* every other job as they were, and its sweep removes every job created
\* before the cutoff.
C20_UnlinkFailureIsSwallowed ==
    [][\A w \in 1..Len(workers) :
          \A failing \in SUBSET UnlinkTargets(w) :
              /\ \A outcome \in RenderOutcomes :
                    WorkerFinish(w, outcome, failing) =>
                        LET job_id == workers[w].job_id
                        IN  job_id \in DOMAIN jobs' =>
                              /\ jobs'[job_id].status = IF outcome = "ok" THEN "done" ELSE "failed"
                              /\ jobs'[job_id].error =
                                    IF outcome = "ok" THEN None ELSE ErrorMessage(outcome)
              /\ LeavesRenderer(w, failing) =>
                    /\ DOMAIN jobs' = {j \in DOMAIN jobs : ~IsExpired(jobs[j], now)}
                    /\ \A j \in DOMAIN jobs' :
                          (j # workers[w].job_id \/ workers'[w].pc = "cancelled") =>
                              /\ jobs'[j].status = jobs[j].status
                              /\ jobs'[j].error = jobs[j].error
      ]_vars

\* C20 witness: without keep_csv a job is done with no error although its
\* temporary CSV is still on disk: the unlink after its renderer call failed.
C20_Witness ==
    /\ ~keep_csv
    /\ \E j \in DOMAIN jobs :
          /\ jobs[j].status = "done" /\ jobs[j].error = None
          /\ CsvPath(j, FALSE) \in files

\* C14: in every reachable state of the renderer adapter the number of
\* renderer processes running at the same time is at most max_parallel,
\* however many coroutines are calling run_batch or waiting in it.
C14_RendererFanOutBounded ==
    Cardinality(Running) <= max_parallel

\* C14 witness: more coroutines are inside run_batch than max_parallel
\* allows to run; max_parallel processes run and a call waits for a permit.
C14_Witness ==
    /\ Cardinality(Running) = max_parallel
    /\ \E c \in DOMAIN callers : callers[c].pc = "waiting"
    /\ \E c \in DOMAIN callers : callers[c].last = "cancelled"

\* C22: in the step in which a worker stops handling its job, whether it
\* marked the job done or failed or the pipeline call was cancelled, the
\* retention sweep has run: no job older than the retention window is left
\* in the table; and the worker has taken no item from the queue in that
\* step, so the sweep comes before its next dequeue.
C22_SweepAfterEveryFinish ==
    [][\A w \in 1..Len(workers) :
          (workers[w].job_id # NoJob /\ workers'[w].job_id = NoJob) =>
              /\ \A j \in DOMAIN jobs' : ~IsExpired(jobs'[j], now)
              /\ dequeued' = dequeued
              /\ queue' = queue
      ]_vars

\* C22 witness: a worker was cancelled inside the pipeline call and the
\* sweep of that step removed a record; no job was ever marked done or
\* failed.
C22_Witness ==
    /\ resolved = {}
    /\ \E w \in 1..Len(workers) : workers[w].pc = "cancelled"
    /\ \E j \in 1..uuids : j \notin DOMAIN jobs

\* The jobs of the table whose record differs after the step.
ChangedJobs == { j \in DOMAIN jobs \cap DOMAIN jobs' : jobs'[j] # jobs[j] }

\* C23: a job that stays in the table keeps its filename, template,
\* created_at and stored request (and gains no other key) in every step; a
\* step changes at most one record, and that record is the job held by a
\* worker before or after the step, of which only status, error and
\* updated_at differ; a failed job still has its non-empty filename.
C23_CreationFieldsAreFrozen ==
    [][/\ \A j \in DOMAIN jobs \cap DOMAIN jobs' :
              /\ jobs'[j].filename = jobs[j].filename
              /\ jobs'[j].template = jobs[j].template
              /\ jobs'[j].created_at = jobs[j].created_at
              /\ jobs'[j].request = jobs[j].request
              /\ jobs'[j].output_file = jobs[j].output_file
       /\ Cardinality(ChangedJobs) <= 1
       /\ \A j \in ChangedJobs :
              \E w \in 1..Len(workers) :
                  workers[w].job_id = j \/ workers'[w].job_id = j
       /\ \A j \in DOMAIN jobs' :
              jobs'[j].status = "failed" =>
                  /\ Len(jobs'[j].filename) > 0
                  /\ jobs'[j].filename =
                         make_output_filename(jobs'[j].template, jobs'[j].created_at)
      ]_vars

\* C23 witness: one job has failed, with a later updated_at and its filename
\* in place, while another job of the table is still as it was created.
C23_Witness ==
    \E j, k \in DOMAIN jobs :
        /\ j # k
        /\ jobs[j].status = "failed"
        /\ jobs[j].updated_at > jobs[j].created_at
        /\ Len(jobs[j].filename) > 0
        /\ jobs[k] = _make_job(jobs[k].request, k, jobs[k].filename, jobs[k].created_at)

\* The jobs of the table whose status is running.
RunningJobs == { j \in DOMAIN jobs : jobs[j].status = "running" }

\* C24: in every reachable state the number of jobs of the table with status
\* running is at most max_parallel.
C24_RunningJobsBounded == Cardinality(RunningJobs) <= max_parallel

\* C25: without keep_csv, after every step in which a worker's generate_pdf
\* call ends, by returning, by raising (from _resolve_template, _json_to_csv
\* or the renderer) or by cancellation, the temporary CSV of that worker's
\* job is not on disk.
C25_NoCsvLeftOnAnyExit ==
    [][\A w \in 1..Len(workers) :
          (workers[w].job_id # NoJob /\ workers'[w].job_id = NoJob /\ ~keep_csv) =>
              CsvPath(workers[w].job_id, FALSE) \notin files'
      ]_vars

\* C26: in every reachable state any two distinct jobs of the table have
\* different filenames, hence different output paths.
C26_FilenamesDistinct ==
    \A j, k \in DOMAIN jobs :
        j # k => OutputPath(jobs[j].filename) # OutputPath(jobs[k].filename)

\* The first row of the data that has key k, and k's place among that row's
\* keys.
FirstRowWith(k, data) ==
    CHOOSE i \in 1..Len(data) :
        /\ k \in Elements(RowKeys(data[i]))
        /\ \A j \in 1..(i - 1) : k \notin Elements(RowKeys(data[j]))

PlaceInRow(k, row) == CHOOSE i \in 1..Len(row) : row[i][1] = k

\* Key k1 appears in the data before key k2 does.
AppearsBefore(k1, k2, data) ==
    LET r1 == FirstRowWith(k1, data)
        r2 == FirstRowWith(k2, data)
    IN  r1 < r2 \/ (r1 = r2 /\ PlaceInRow(k1, data[r1]) < PlaceInRow(k2, data[r2]))

\* The data list [{X: 1}, {Y: 2}].
ExampleData == << << <<"X", "1">> >>, << <<"Y", "2">> >> >>

\* C21: after _json_to_csv has returned (the data list was not empty): with
\* no field order given, the field names are exactly the keys of the
\* records, each once, in order of first appearance; whatever the chosen
\* field order, there is one header line and one line per record, in input
\* order, whose cells are the record's values for the chosen field names,
\* empty where the record lacks the field, so that keys outside the chosen
\* order do not appear; [{X: 1}, {Y: 2}] gives the lines X,Y then 1, then ,2.
C21_ExportLayout ==
    csv.pc = "returned" =>
        LET data == csv.data
            header == csv.fieldnames
        IN  /\ data # <<>>
            /\ csv.field_order # <<>> => header = csv.field_order
            /\ csv.field_order = <<>> =>
                  /\ Elements(header) = UNION { Elements(RowKeys(data[i])) : i \in 1..Len(data) }
                  /\ \A a, b \in 1..Len(header) :
                        a < b => AppearsBefore(header[a], header[b], data)
            /\ Len(csv.cells) = Len(data)
            /\ Len(csv.lines) = 1 + Len(data)
            /\ csv.lines[1] = CsvLine(header)
            /\ \A i \in 1..Len(data) :
                  /\ Len(csv.cells[i]) = Len(header)
                  /\ \A c \in 1..Len(header) :
                        csv.cells[i][c] =
                            IF header[c] \in Elements(RowKeys(data[i]))
                            THEN data[i][PlaceInRow(header[c], data[i])][2]
                            ELSE ""
                  /\ csv.lines[i + 1] = CsvLine(csv.cells[i])
            /\ (data = ExampleData /\ csv.field_order = <<>>) =>
                  csv.lines = << <<"X", ",", "Y">>, <<"1", ",">>, <<",", "2">> >>
            /\ ExportPath \in files

\* C21 witness: [{X: 1}, {Y: 2}] has been exported with no field order: the
\* header is X,Y and the data lines are "1," and ",2".
C21_Witness ==
    /\ csv.pc = "returned"
    /\ csv.data = ExampleData
    /\ csv.field_order = <<>>
    /\ csv.fieldnames = <<"X", "Y">>
    /\ csv.lines = << <<"X", ",", "Y">>, <<"1", ",">>, <<",", "2">> >>

=============================================================================
